---- MODULE Spec2Model ----
(***************************************************************************)
(* IoT mesh network: topology (IoTNetwork), radio energy model             *)
(* (advanced_energy_model) and alive-node-aware routing (RoutingEngine).   *)
(*                                                                         *)
(* Units.  Numbers the program keeps as floats are kept exact here:        *)
(*   distance     in half units        (distance 5.5 is 11, 10 is 20)      *)
(*   packet size  in quarter units     (packet size 1 is 4, 1.25 is 5)     *)
(*   energy cost  in 1/1600 units      (2.5 is 4000, 2.21 is 3536)         *)
(* Node energy is the program's integer percentage.                        *)
(***************************************************************************)
EXTENDS Integers, Sequences, FiniteSets, TLC

\* ---------------------------------------------------------------- parameters

\* IoTNetwork(num_nodes): the node count the topology is constructed with.
NumNodes == 3

\* generate_nodes: random.randint(80, 100)
MinInitEnergy == 80
MaxInitEnergy == 100

\* generate_edges: random.randint(1, 20), in half units
MinDistance == 2
MaxDistance == 40

\* advanced_energy_model coefficients, in hundredths (0.5 and 0.02)
E_elec == 50
E_amp == 2

\* How many apply_battery_drain calls a run of SpecDrain follows.
MaxDrains == 2

\* The distances the model draws for an edge: 6, 10 and 12 (even: integers).
DistChoices == {d \in {12, 20, 24} : MinDistance <= d /\ d <= MaxDistance /\ d % 2 = 0}

\* Packet sizes handed to assign_energy_costs: pkt_map's 1 and 10.
AssignPackets == {4, 40}

\* Packet sizes handed to apply_battery_drain under Spec: 25 and 50, which
\* drain 50 and 100, so that a node's charge is 100, 50 or 0.
CoarsePackets == {100, 200}

\* Packet sizes handed to apply_battery_drain under SpecDrain:
\* 0.25, 1, 1.25, 5, 10 and 40, which drain 1, 2, 2, 10, 20 and 80.
FinePackets == {1, 4, 5, 20, 40, 160}

\* Packet sizes of the routing handlers under SpecProgress: 0.25 and 10,
\* which drain 1 and 20.
ProgressPackets == {1, 40}

\* Packet sizes handed to assign_energy_costs under SpecDouble: 1 and 8.75.
DoublePackets == {4, 35}

Nodes == 0 .. (NumNodes - 1)

\* An id that is no node of the graph.
NotANode == NumNodes

\* An unordered node pair; nx.Graph keeps at most one edge per pair.
Pairs == {e \in SUBSET Nodes : Cardinality(e) = 2}

\* The edge attribute 'energy_cost' is absent.
Missing == -1

\* Python's None, as a returned node id.
None == -1

VARIABLES
    energy,       \* graph.nodes[n]['energy']
    distance,     \* graph[u][v]['distance'], a function of the edge set
    energy_cost,  \* graph[u][v]['energy_cost'], Missing when absent
    drains,       \* apply_battery_drain calls counted so far (SpecDrain)
    failed,       \* the ids fail_random_node has returned so far (SpecFail)
    energy_cost_double, \* graph[u][v]['energy_cost'] as the double it is, <<>> when absent (SpecDouble)
    op,           \* the call that has just returned, "idle" between calls
    source,       \* its arguments ...
    target,
    pkt,
    path,         \* ... the path it took or returned
    epath,        \* the second path of a comparison
    ret,          \* ... and what it returned
    drainT,       \* a thread inside apply_battery_drain (SpecConc)
    failT         \* a thread inside fail_random_node (SpecConc)

vars == <<energy, distance, energy_cost, drains, failed, energy_cost_double, op, source, target, pkt, path, epath, ret,
          drainT, failT>>

topology == <<energy, distance, energy_cost>>

threads == <<drainT, failT>>

Edges == DOMAIN distance

Max(a, b) == IF a >= b THEN a ELSE b

\* ---------------------------------------------------------------- energy model

\* advanced_energy_model(distance, packet_size), without the square (mutant)
advanced_energy_model_linear(d, ps) == (4 * E_elec * ps) + (E_amp * ps * d)

\* advanced_energy_model(distance, packet_size)
advanced_energy_model(d, ps) == (4 * E_elec * ps) + (E_amp * ps * (d * d))

\* ---------------------------------------------------------------- doubles

\* The costs as the code holds them: IEEE 754 doubles.  A double is written as
\* its value in units of 2^-64, a sequence of DoubleWidth bits, lowest first;
\* every sum and product is rounded to 53 significant bits, ties to even.
\* (\o <<>> makes a sequence of the function.)
DoubleWidth == 76

Bits(n) == [i \in 1 .. DoubleWidth |-> IF i <= 30 THEN (n \div (2 ^ (i - 1))) % 2 ELSE 0] \o <<>>

ShiftLeft(a, k) == [i \in 1 .. DoubleWidth |-> IF i > k THEN a[i - k] ELSE 0] \o <<>>

ShiftRight(a, k) == [i \in 1 .. DoubleWidth |-> IF i + k <= DoubleWidth THEN a[i + k] ELSE 0] \o <<>>

\* The carry into bit i of a + b: some lower bit makes one and every bit
\* between passes it on.
Carry(a, b, i) ==
    IF \E j \in 1 .. (i - 1) :
           /\ a[j] + b[j] = 2
           /\ \A k \in (j + 1) .. (i - 1) : a[k] + b[k] >= 1
    THEN 1 ELSE 0

\* a + b, exactly
Add(a, b) == [i \in 1 .. DoubleWidth |-> (a[i] + b[i] + Carry(a, b, i)) % 2] \o <<>>

RECURSIVE Times(_, _)
\* a * k for an integer k, exactly
Times(a, k) ==
    IF k = 0
    THEN Bits(0)
    ELSE Add(IF k % 2 = 1 THEN a ELSE Bits(0), ShiftLeft(Times(a, k \div 2), 1))

\* a < b
Less(a, b) ==
    \E i \in 1 .. DoubleWidth :
        /\ a[i] < b[i]
        /\ \A j \in (i + 1) .. DoubleWidth : a[j] = b[j]

\* The double nearest to a: 53 significant bits, ties to even.
RoundDouble(a) ==
    LET set  == {i \in 1 .. DoubleWidth : a[i] = 1}
        top  == IF set = {} THEN 0 ELSE CHOOSE i \in set : \A j \in set : j <= i
        k    == top - 53
    IN  IF k <= 0
        THEN a
        ELSE LET q    == ShiftRight(a, k)
                 rest == \E i \in 1 .. (k - 1) : a[i] = 1
                 up   == a[k] = 1 /\ (rest \/ q[1] = 1)
             IN  ShiftLeft(IF up THEN Add(q, Bits(1)) ELSE q, k)

\* E_amp = 0.02 as a double: 0x147AE147AE147B * 2^-58
E_amp_double ==
    ShiftLeft(Add(Bits(5243),
              Add(ShiftLeft(Bits(18350), 16),
              Add(ShiftLeft(Bits(31457), 32),
                  ShiftLeft(Bits(20), 48)))), 6)

\* advanced_energy_model(distance, packet_size) as Python evaluates it:
\* (E_elec * packet_size) + ((E_amp * packet_size) * (distance ** 2)), with
\* d in half units and ps in quarter units.  E_elec * packet_size and
\* distance ** 2 are exact.
advanced_energy_model_double(d, ps) ==
    LET amp_ps == RoundDouble(ShiftRight(Times(E_amp_double, ps), 2))
        amp    == RoundDouble(Times(ShiftRight(amp_ps, 2), d * d))
        elec   == ShiftLeft(Bits(ps), 61)
    IN  RoundDouble(Add(elec, amp))

\* ---------------------------------------------------------------- paths

RECURSIVE Extend(_, _, _)
\* The sequences of distinct nodes of V that start with p and go on along
\* edges of E.
Extend(p, V, E) ==
    LET last == p[Len(p)]
        used == {p[i] : i \in 1 .. Len(p)}
        next == {v \in V \ used : {last, v} \in E}
    IN  {p} \cup UNION {Extend(Append(p, v), V, E) : v \in next}

\* The simple paths of the graph (V, E).
SimplePaths(V, E) == UNION {Extend(<<v>>, V, E) : v \in V}

RECURSIVE SumFrom(_, _, _)
\* total = 0.0; for u, v in zip(path, path[1:]): total += w[u, v]
SumFrom(p, i, w) ==
    IF i >= Len(p) THEN 0 ELSE w[{p[i], p[i + 1]}] + SumFrom(p, i + 1, w)

\* ---------------------------------------------------------------- routing

\* _alive_subgraph that removes no node (mutant)
AliveNodes_unfiltered == Nodes

\* _alive_subgraph: the nodes the copy of the graph keeps
AliveNodes == {n \in Nodes : ~(energy[n] <= 0)}

\* _alive_subgraph: remove_node drops the edges of a removed node
AliveEdges == {e \in Edges : e \subseteq AliveNodes}

\* weight='distance'
WeightDistance == [e \in Edges |-> distance[e]]

\* weight='energy_cost'; networkx reads a missing weight attribute as 1
WeightEnergy == [e \in Edges |-> IF energy_cost[e] = Missing THEN 1 ELSE energy_cost[e]]

\* nx.shortest_path with the weight argument dropped: fewest hops (mutant)
ShortestPaths_unweighted(w, s, t) ==
    IF s \notin AliveNodes \/ t \notin AliveNodes
    THEN {}
    ELSE LET P == {p \in SimplePaths(AliveNodes, AliveEdges) : p[1] = s /\ p[Len(p)] = t}
         IN  {p \in P : \A q \in P : Len(p) <= Len(q)}

\* nx.shortest_path(alive_graph, source, target, weight): every path it may
\* return; empty when it raises NodeNotFound or NetworkXNoPath.
ShortestPaths(w, s, t) ==
    IF s \notin AliveNodes \/ t \notin AliveNodes
    THEN {}
    ELSE LET P == {p \in SimplePaths(AliveNodes, AliveEdges) : p[1] = s /\ p[Len(p)] = t}
         IN  {p \in P : \A q \in P : SumFrom(p, 1, w) <= SumFrom(q, 1, w)}

\* RoutingEngine.shortest_path_distance: the paths it may return
shortest_path_distance(s, t) == ShortestPaths(WeightDistance, s, t)

\* shortest_path_energy weighted by 'distance' (mutant)
shortest_path_energy_by_distance(s, t) == ShortestPaths(WeightDistance, s, t)

\* RoutingEngine.shortest_path_energy: the paths it may return
shortest_path_energy(s, t) == ShortestPaths(WeightEnergy, s, t)

\* weight='energy_cost', as doubles; a missing attribute reads as 1
WeightEnergyDouble(c) == [e \in Edges |-> IF c[e] = <<>> THEN ShiftLeft(Bits(1), 64) ELSE c[e]]

RECURSIVE SumDoubleFrom(_, _, _)
\* The weight of p from its hop i on, added to acc hop by hop as Dijkstra's
\* dist + cost and energy_cost's total += do.
SumDoubleFrom(p, i, w) ==
    IF i <= 1 THEN Bits(0)
    ELSE RoundDouble(Add(SumDoubleFrom(p, i - 1, w), w[{p[i - 1], p[i]}]))

\* nx.shortest_path over the alive subgraph with double weights w
ShortestPathsDouble(w, s, t) ==
    IF s \notin AliveNodes \/ t \notin AliveNodes
    THEN {}
    ELSE LET P == {p \in SimplePaths(AliveNodes, AliveEdges) : p[1] = s /\ p[Len(p)] = t}
         IN  {p \in P : \A q \in P :
                 ~Less(SumDoubleFrom(q, Len(q), w), SumDoubleFrom(p, Len(p), w))}

\* RoutingEngine.shortest_path_energy on the stored doubles
shortest_path_energy_double(s, t) ==
    ShortestPathsDouble(WeightEnergyDouble(energy_cost_double), s, t)

\* distance_cost that skips the first hop (mutant)
distance_cost_skip(p) == SumFrom(p, 2, [e \in Edges |-> distance[e]])

\* RoutingEngine.distance_cost(graph, path)
distance_cost(p) == SumFrom(p, 1, [e \in Edges |-> distance[e]])

\* RoutingEngine.energy_cost(graph, path): a missing attribute reads as 0
energy_cost_of(p) ==
    SumFrom(p, 1, [e \in Edges |-> IF energy_cost[e] = Missing THEN 0 ELSE energy_cost[e]])

\* ---------------------------------------------------------------- drain

\* Python's round(num / den): to nearest, ties to even.
RoundHalfEven(num, den) ==
    LET q == num \div den
        r == num % den
    IN  IF 2 * r < den THEN q
        ELSE IF 2 * r > den THEN q + 1
        ELSE IF q % 2 = 0 THEN q ELSE q + 1

\* drain_amount without the factor 2 (mutant)
DrainAmount_single(ps) == Max(1, RoundHalfEven(ps, 4))

\* drain_amount without the floor of 1 (mutant)
DrainAmount_nofloor(ps) == RoundHalfEven(2 * ps, 4)

\* drain_amount = max(1, int(round(2 * packet_size)))
DrainAmount(ps) == Max(1, RoundHalfEven(2 * ps, 4))

\* current - drain_amount, not clamped (mutant)
Drained_unclamped(current, amount) == current - amount

\* max(0, current + drain_amount) (mutant)
Drained_added(current, amount) == Max(0, current + amount)

\* max(0, current - drain_amount)
Drained(current, amount) == Max(0, current - amount)

\* ---------------------------------------------------------------- failure

\* alive_nodes with >= for > (mutant)
alive_nodes_ge == {n \in Nodes : energy[n] >= 0}

\* alive_nodes cut to its first node, as alive_nodes[0] for random.choice (mutant)
alive_nodes_first ==
    {n \in Nodes : energy[n] > 0 /\ \A m \in Nodes : energy[m] > 0 => n <= m}

\* fail_random_node: alive_nodes = [n for n, d in ... if d.get('energy', 0) > 0]
alive_nodes == {n \in Nodes : energy[n] > 0}

\* ---------------------------------------------------------------- construction

\* No thread is inside a call.
NoDrainThread == [pc |-> "idle", path |-> <<>>, i |-> 0, cur |-> 0, amount |-> 0]
NoFailThread == [pc |-> "idle", alive |-> {}, node |-> None]

\* Construct, with the costs of packet size 1 already on the edges.
Construct_costed(charges, edgeSets, dists) ==
    /\ energy \in [Nodes -> charges]
    /\ \E E \in edgeSets : distance \in [E -> dists]
    /\ energy_cost = [e \in DOMAIN distance |-> advanced_energy_model(distance[e], 4)]
    /\ drains = 0
    /\ failed = {}
    /\ energy_cost_double = [e \in DOMAIN distance |-> <<>>]
    /\ op = "construct"
    /\ source = NotANode
    /\ target = NotANode
    /\ pkt = 0
    /\ path = <<>>
    /\ epath = <<>>
    /\ ret = None
    /\ drainT = NoDrainThread
    /\ failT = NoFailThread

\* IoTNetwork.__init__: generate_nodes, then generate_edges; the charges, the
\* edge sets and the distances are the ones the model draws from.
Construct(charges, edgeSets, dists) ==
    /\ energy \in [Nodes -> charges]
    /\ \E E \in edgeSets : distance \in [E -> dists]
    /\ energy_cost = [e \in DOMAIN distance |-> Missing]
    /\ drains = 0
    /\ failed = {}
    /\ energy_cost_double = [e \in DOMAIN distance |-> <<>>]
    /\ op = "construct"
    /\ source = NotANode
    /\ target = NotANode
    /\ pkt = 0
    /\ path = <<>>
    /\ epath = <<>>
    /\ ret = None
    /\ drainT = NoDrainThread
    /\ failT = NoFailThread

\* Every graph on the nodes, fully charged.
Init == Construct({MaxInitEnergy}, SUBSET Pairs, DistChoices)

\* The complete graph, charges 81, 83 and 100.
InitDrain ==
    Construct({e \in {81, 83, 100} : MinInitEnergy <= e /\ e <= MaxInitEnergy}, {Pairs}, {20})

\* Scenario A: A = 0, B = 1, C = 2; A-C distance 10, A-B and B-C distance 5.5.
InitA ==
    /\ Construct({MaxInitEnergy}, {Pairs}, {11, 20})
    /\ distance = [e \in Pairs |-> IF e = {0, 2} THEN 20 ELSE 11]

\* ---------------------------------------------------------------- operations

NoArgs == /\ source' = NotANode /\ target' = NotANode /\ pkt' = 0
          /\ path' = <<>> /\ epath' = <<>>

\* The caller is done with what the call returned (the end of a script run:
\* path, fail and the tables are locals of the run).
Return ==
    /\ op # "idle"
    /\ op' = "idle"
    /\ NoArgs
    /\ ret' = None
    /\ UNCHANGED <<topology, drains, failed, energy_cost_double, threads>>

\* IoTNetwork.assign_energy_costs(advanced_energy_model, packet_size); with
\* doubles, the stored doubles are kept next to their exact values.
AssignCosts(ps, doubles) ==
    /\ op = "idle"
    /\ energy_cost' = [e \in Edges |-> advanced_energy_model(distance[e], ps)]
    /\ energy_cost_double' =
          IF doubles
          THEN [e \in Edges |-> advanced_energy_model_double(distance[e], ps)]
          ELSE energy_cost_double
    /\ op' = "assign"
    /\ source' = NotANode /\ target' = NotANode /\ path' = <<>> /\ epath' = <<>>
    /\ pkt' = ps
    /\ ret' = None
    /\ UNCHANGED <<energy, distance, drains, failed, threads>>

\* IoTNetwork.assign_energy_costs(advanced_energy_model, packet_size)
AssignEnergyCosts(ps) == AssignCosts(ps, FALSE)

\* IoTNetwork.assign_energy_costs(advanced_energy_model, packet_size), the
\* doubles kept.
AssignEnergyCostsDouble(ps) == AssignCosts(ps, TRUE)

\* IoTNetwork.fail_random_node(); with log, the returned id is added to failed.
FailNode(log) ==
    /\ op = "idle"
    /\ IF alive_nodes = {}
       THEN /\ ret' = None
            /\ UNCHANGED <<energy, failed>>
       ELSE \E node \in alive_nodes :
                /\ energy' = [energy EXCEPT ![node] = 0]
                /\ ret' = node
                /\ failed' = IF log THEN failed \cup {node} ELSE failed
    /\ op' = "fail"
    /\ NoArgs
    /\ UNCHANGED <<distance, energy_cost, drains, energy_cost_double, threads>>

\* IoTNetwork.fail_random_node()
FailRandomNode == FailNode(FALSE)

\* IoTNetwork.fail_random_node(), its returned ids kept in failed.
FailRandomNodeLogged == FailNode(TRUE)

\* apply_battery_drain looping over graph.nodes instead of path (mutant)
ApplyBatteryDrain_all(p, ps) ==
    /\ op = "idle"
    /\ energy' = [n \in Nodes |-> Drained(energy[n], DrainAmount(ps))]
    /\ op' = "drain"
    /\ path' = p
    /\ pkt' = ps
    /\ source' = NotANode /\ target' = NotANode /\ epath' = <<>>
    /\ ret' = None
    /\ UNCHANGED <<distance, energy_cost, failed, energy_cost_double, threads>>

\* RoutingEngine.apply_battery_drain(graph, path, packet_size)
ApplyBatteryDrain(p, ps) ==
    /\ op = "idle"
    /\ energy' = [n \in Nodes |->
                    IF \E i \in 1 .. Len(p) : p[i] = n
                    THEN Drained(energy[n], DrainAmount(ps))
                    ELSE energy[n]]
    /\ op' = "drain"
    /\ path' = p
    /\ pkt' = ps
    /\ source' = NotANode /\ target' = NotANode /\ epath' = <<>>
    /\ ret' = None
    /\ UNCHANGED <<distance, energy_cost, failed, energy_cost_double, threads>>

\* A routing query whose _alive_subgraph removes the dead nodes from the
\* caller's graph instead of a copy (mutant)
Route_nocopy(name, found, s, t) ==
    /\ op = "idle"
    /\ IF found = {}
       THEN /\ ret' = 0
            /\ path' = <<>>
       ELSE /\ ret' = 1
            /\ path' \in found
    /\ op' = name
    /\ source' = s
    /\ target' = t
    /\ pkt' = 0
    /\ epath' = <<>>
    /\ energy' = [n \in AliveNodes |-> energy[n]]
    /\ distance' = [e \in AliveEdges |-> distance[e]]
    /\ energy_cost' = [e \in AliveEdges |-> energy_cost[e]]
    /\ UNCHANGED <<drains, failed, energy_cost_double, threads>>

\* A routing query: returns one of the paths nx.shortest_path may return
\* (ret = 1), or raises NetworkXNoPath (ret = 0).
Route(name, found, s, t) ==
    /\ op = "idle"
    /\ IF found = {}
       THEN /\ ret' = 0
            /\ path' = <<>>
       ELSE /\ ret' = 1
            /\ path' \in found
    /\ op' = name
    /\ source' = s
    /\ target' = t
    /\ pkt' = 0
    /\ epath' = <<>>
    /\ UNCHANGED <<topology, drains, failed, energy_cost_double, threads>>

\* RoutingEngine.shortest_path_distance(graph, source, target)
ShortestPathDistance(s, t) ==
    Route("shortest_path_distance", shortest_path_distance(s, t), s, t)

\* RoutingEngine.shortest_path_energy(graph, source, target)
ShortestPathEnergy(s, t) ==
    Route("shortest_path_energy", shortest_path_energy(s, t), s, t)

\* "Compare Paths": both queries on the same graph, then compare_routes.
\* ret = 1 with the distance path in path and the energy path in epath, or
\* ret = 0 when a query raised ("Unable to compare").
ComparePaths(s, t) ==
    /\ op = "idle"
    /\ IF shortest_path_distance(s, t) = {} \/ shortest_path_energy(s, t) = {}
       THEN /\ ret' = 0
            /\ path' = <<>>
            /\ epath' = <<>>
       ELSE /\ ret' = 1
            /\ path' \in shortest_path_distance(s, t)
            /\ epath' \in shortest_path_energy(s, t)
    /\ op' = "compare"
    /\ source' = s
    /\ target' = t
    /\ pkt' = 0
    /\ UNCHANGED <<topology, drains, failed, energy_cost_double, threads>>

\* RoutingEngine.distance_cost(graph, path)
DistanceCost(p) ==
    /\ op = "idle"
    /\ ret' = distance_cost(p)
    /\ op' = "distance_cost"
    /\ path' = p
    /\ source' = NotANode /\ target' = NotANode /\ pkt' = 0 /\ epath' = <<>>
    /\ UNCHANGED <<topology, drains, failed, energy_cost_double, threads>>

\* RoutingEngine.energy_cost(graph, path)
EnergyCost(p) ==
    /\ op = "idle"
    /\ ret' = energy_cost_of(p)
    /\ op' = "energy_cost"
    /\ path' = p
    /\ source' = NotANode /\ target' = NotANode /\ pkt' = 0 /\ epath' = <<>>
    /\ UNCHANGED <<topology, drains, failed, energy_cost_double, threads>>

\* Node ids a caller may pass: the nodes, and an id that is no node.
Ids == Nodes \cup {NotANode}

\* The paths a caller may hold: the simple paths of the whole graph.
Paths == SimplePaths(Nodes, Edges)

\* A drain with one of the coarse packet sizes.
CoarseDrain == \E p \in Paths, ps \in CoarsePackets :
                  ApplyBatteryDrain(p, ps) /\ UNCHANGED drains

\* A drain with one of the fine packet sizes, counted.
FineDrain == \E p \in Paths, ps \in FinePackets :
                /\ drains < MaxDrains
                /\ ApplyBatteryDrain(p, ps)
                /\ drains' = drains + 1

Next ==
    \/ Return
    \/ \E ps \in AssignPackets : AssignEnergyCosts(ps)
    \/ FailRandomNode
    \/ CoarseDrain
    \/ \E s \in Ids, t \in Ids : ShortestPathDistance(s, t)
    \/ \E s \in Ids, t \in Ids : ShortestPathEnergy(s, t)
    \/ \E s \in Ids, t \in Ids : ComparePaths(s, t)
    \/ \E p \in Paths : DistanceCost(p)
    \/ \E p \in Paths : EnergyCost(p)

\* Any sequence of the operations on a constructed network.
Spec == Init /\ [][Next]_vars

\* The same operations on the topology of scenario A.
SpecA == InitA /\ [][Next]_vars

NextDrain ==
    \/ Return
    \/ FailRandomNode
    \/ FineDrain

\* Drains with the fine packet sizes, and failures.
SpecDrain == InitDrain /\ [][NextDrain]_vars

\* Any graph on the nodes, with charges 80, 91 and 100 and distances 1, 7 and 20.
InitConstruct ==
    Construct({e \in {80, 91, 100} : MinInitEnergy <= e /\ e <= MaxInitEnergy},
              SUBSET Pairs,
              {d \in {2, 14, 40} : MinDistance <= d /\ d <= MaxDistance /\ d % 2 = 0})

NextConstruct ==
    \/ Return
    \/ \E p \in Paths : EnergyCost(p)

\* A freshly constructed network whose path costs are read before any
\* assign_energy_costs call.
SpecConstruct == InitConstruct /\ [][NextConstruct]_vars

\* Any graph on the nodes with every distance 6, full charge.
InitFail == Construct({MaxInitEnergy}, SUBSET Pairs, {12})

NextFail ==
    \/ Return
    \/ FailRandomNodeLogged
    \/ CoarseDrain
    \/ \E s \in Ids, t \in Ids : ShortestPathDistance(s, t)
    \/ \E s \in Ids, t \in Ids : ShortestPathEnergy(s, t)

\* Failures, their returned ids kept, among drains and routing queries.
SpecFail == InitFail /\ [][NextFail]_vars

\* ---------------------------------------------------------------- handlers

\* What a routing handler leaves in op.
RunOps == {"run_distance", "run_energy"}

\* A routing handler of the front end, one script run: the query, then
\* apply_battery_drain on the returned path and assign_energy_costs; when the
\* query raises, the except branch is taken and the graph is left alone.
\* The runs of one session keep the source and target of the first one;
\* drains counts the runs that found a path.
RunRouting(name, found, s, t, ps) ==
    /\ \/ op = "construct"
       \/ op \in RunOps /\ source = s /\ target = t
    /\ IF found = {}
       THEN /\ ret' = 0
            /\ path' = <<>>
            /\ UNCHANGED <<energy, energy_cost, drains>>
       ELSE /\ ret' = 1
            /\ path' \in found
            /\ energy' = [n \in Nodes |->
                            IF \E i \in 1 .. Len(path') : path'[i] = n
                            THEN Drained(energy[n], DrainAmount(ps))
                            ELSE energy[n]]
            /\ energy_cost' = [e \in Edges |-> advanced_energy_model(distance[e], ps)]
            /\ drains' = drains + 1
    /\ op' = name
    /\ source' = s
    /\ target' = t
    /\ pkt' = ps
    /\ epath' = <<>>
    /\ UNCHANGED <<distance, failed, energy_cost_double, threads>>

\* "Run Shortest Distance Routing"
RunDistanceRouting(s, t, ps) ==
    RunRouting("run_distance", shortest_path_distance(s, t), s, t, ps)

\* "Run Energy Efficient Routing"
RunEnergyRouting(s, t, ps) ==
    RunRouting("run_energy", shortest_path_energy(s, t), s, t, ps)

\* The line 0 - 1 - 2 with hops of distance 6, alone or closed by an edge
\* 0 - 2 of distance 6 or 12; full charge.
InitProgress ==
    /\ Construct({MaxInitEnergy}, {Pairs, {{0, 1}, {1, 2}}}, {12, 24})
    /\ \A e \in Edges : e # {0, 2} => distance[e] = 12

NextProgress ==
    \/ \E s \in Nodes, t \in Nodes, ps \in ProgressPackets : RunDistanceRouting(s, t, ps)
    \/ \E s \in Nodes, t \in Nodes, ps \in ProgressPackets : RunEnergyRouting(s, t, ps)

\* The routing handlers pressed again and again for one source and target.
SpecProgress == InitProgress /\ [][NextProgress]_vars

\* ---------------------------------------------------------------- doubles, routed

\* RoutingEngine.shortest_path_energy(graph, s, t) on the stored doubles
ShortestPathEnergyDouble(s, t) ==
    Route("shortest_path_energy", shortest_path_energy_double(s, t), s, t)

\* The triangle with distances 2, 10, 14 and 15, full charge.
InitDouble == Construct({MaxInitEnergy}, {Pairs}, {4, 20, 28, 30})

NextDouble ==
    \/ Return
    \/ \E ps \in DoublePackets : AssignEnergyCostsDouble(ps)
    \/ \E s \in Ids, t \in Ids : ShortestPathEnergyDouble(s, t)

\* Cost assignments and energy routing with the costs as doubles.
SpecDouble == InitDouble /\ [][NextDouble]_vars

\* ---------------------------------------------------------------- two threads

\* Two callers share the graph: one is inside apply_battery_drain, the other
\* inside fail_random_node.  Neither method takes a lock, so a thread switch
\* may fall between any two of their reads and writes of the graph.

\* apply_battery_drain is entered: drain_amount is computed, the loop starts.
ConcDrainCall(p, ps) ==
    /\ drainT.pc = "idle"
    /\ drainT' = [pc |-> "read", path |-> p, i |-> 1, cur |-> 0, amount |-> DrainAmount(ps)]
    /\ UNCHANGED <<topology, drains, failed, energy_cost_double, op, source, target, pkt, path, epath, ret, failT>>

\* current = graph.nodes[node]['energy']
ConcDrainRead ==
    /\ drainT.pc = "read"
    /\ drainT' = [drainT EXCEPT !.pc = "write", !.cur = energy[drainT.path[drainT.i]]]
    /\ UNCHANGED <<topology, drains, failed, energy_cost_double, op, source, target, pkt, path, epath, ret, failT>>

\* graph.nodes[node]['energy'] = max(0, current - drain_amount)
ConcDrainWrite ==
    /\ drainT.pc = "write"
    /\ energy' = [energy EXCEPT ![drainT.path[drainT.i]] = Drained(drainT.cur, drainT.amount)]
    /\ drainT' = IF drainT.i = Len(drainT.path)
                 THEN [drainT EXCEPT !.pc = "done"]
                 ELSE [drainT EXCEPT !.pc = "read", !.i = drainT.i + 1]
    /\ UNCHANGED <<distance, energy_cost, drains, failed, energy_cost_double, op, source, target, pkt, path, epath, ret, failT>>

\* alive_nodes = [...]; if not alive_nodes: return None
ConcFailScan ==
    /\ failT.pc = "idle"
    /\ failT' = [pc |-> IF alive_nodes = {} THEN "done" ELSE "choose",
                 alive |-> alive_nodes, node |-> None]
    /\ UNCHANGED <<topology, drains, failed, energy_cost_double, op, source, target, pkt, path, epath, ret, drainT>>

\* node = random.choice(alive_nodes); graph.nodes[node]['energy'] = 0
ConcFailWrite ==
    /\ failT.pc = "choose"
    /\ \E node \in failT.alive :
          /\ energy' = [energy EXCEPT ![node] = 0]
          /\ failT' = [failT EXCEPT !.pc = "done", !.node = node]
    /\ UNCHANGED <<distance, energy_cost, drains, failed, energy_cost_double, op, source, target, pkt, path, epath, ret, drainT>>

NextConc ==
    \/ \E p \in Paths, ps \in CoarsePackets : ConcDrainCall(p, ps)
    \/ ConcDrainRead
    \/ ConcDrainWrite
    \/ ConcFailScan
    \/ ConcFailWrite

\* One apply_battery_drain and one fail_random_node, run by two threads.
SpecConc == Init /\ [][NextConc]_vars

\* ---------------------------------------------------------------- properties

RouteOps == {"shortest_path_distance", "shortest_path_energy"}

\* The nodes of a path.
NodesOf(p) == {p[i] : i \in 1 .. Len(p)}

\* C1.  Alive-only routing: a path returned by shortest_path_distance or
\* shortest_path_energy (alone or in a comparison) holds no node whose energy
\* is 0 at the time of the query, its source and its target included.
C1_AliveOnlyRouting ==
    /\ (op \in RouteOps /\ ret = 1) =>
          /\ \A n \in NodesOf(path) : n \in Nodes /\ energy[n] # 0
          /\ energy[source] # 0 /\ energy[target] # 0
    /\ (op = "compare" /\ ret = 1) =>
          \A n \in NodesOf(path) \cup NodesOf(epath) : n \in Nodes /\ energy[n] # 0

\* A route was returned that goes round a dead node, although the way through
\* that node is the cheaper one.
C1_Witness ==
    /\ op = "shortest_path_energy" /\ ret = 1
    /\ path = <<0, 2>>
    /\ energy[1] = 0
    /\ Edges = Pairs
    /\ energy_cost[{0, 1}] # Missing
    /\ energy_cost[{0, 1}] + energy_cost[{1, 2}] < energy_cost[{0, 2}]

\* C2.  Energy bounds: in every state every node's energy is an integer
\* with 0 <= energy <= 100.
C2_EnergyBounds == \A n \in Nodes : energy[n] \in 0 .. 100

\* A drain by 80 has taken a node of the drained path to 0 while another node
\* of the same path is left with less than 80, and a third is fully charged.
C2_Witness ==
    /\ op = "drain" /\ pkt = 160
    /\ \E n \in NodesOf(path) : energy[n] = 0
    /\ \E n \in NodesOf(path) : energy[n] = 3
    /\ \E n \in Nodes : energy[n] = 100

\* C3.  Per-node energy never increases, 0 is absorbing, and only
\* fail_random_node and apply_battery_drain change a node's energy.
C3_EnergyMonotone ==
    [][ /\ \A n \in Nodes : energy'[n] <= energy[n]
        /\ \A n \in Nodes : energy[n] = 0 => energy'[n] = 0
        /\ energy' # energy => op' \in {"fail", "drain"} ]_vars

\* A drain has lowered a node from 100 to 50 next to a node that is at 0.
C3_Witness ==
    /\ op = "drain" /\ pkt = 100
    /\ \E n \in NodesOf(path) : energy[n] = 50
    /\ \E n \in NodesOf(path) : energy[n] = 0

\* C4.  Failure sentinel: fail_random_node returns None exactly when every
\* node has energy 0, and then it leaves energies, edges, distances and
\* energy costs as they were.
C4_FailureSentinel ==
    [][ op' = "fail" =>
          /\ (ret' = None) <=> (\A n \in Nodes : energy[n] = 0)
          /\ ret' = None => UNCHANGED topology ]_vars

\* fail_random_node has returned None.
C4_Witness ==
    /\ op = "fail" /\ ret = None
    /\ \A n \in Nodes : energy[n] = 0
    /\ Edges # {}

\* C5.  Energy-path admissibility: when both queries succeed for the same
\* pair on the same state, the energy cost of the energy path is at most the
\* energy cost of the distance path.
C5_EnergyPathAdmissible ==
    (op = "compare" /\ ret = 1) => energy_cost_of(epath) <= energy_cost_of(path)

\* A comparison in which the energy path is strictly cheaper.
C5_Witness ==
    /\ op = "compare" /\ ret = 1
    /\ path # epath
    /\ energy_cost_of(epath) < energy_cost_of(path)
RECURSIVE Reach(_)
\* The nodes with energy > 0 that a walk over nodes with energy > 0 reaches
\* from S.
Reach(S) ==
    LET more == {v \in Nodes : energy[v] > 0 /\ \E u \in S : {u, v} \in Edges}
    IN  IF more \subseteq S THEN S ELSE Reach(S \cup more)

\* The condition under which the claim says a query fails with NoRoute.
NoRouteCondition(s, t) ==
    \/ s \notin Nodes
    \/ t \notin Nodes
    \/ energy[s] = 0
    \/ energy[t] = 0
    \/ t \notin Reach({s})

\* C6.  NoRoute condition: a routing query either returns a path from source
\* to target or fails with NoRoute; it fails exactly when the source or the
\* target has energy 0 or is no node, or no path of alive nodes joins them;
\* when X and Y are joined only through Z and Z is at 0, the query (X, Y)
\* fails; and a query, failed or not, changes nothing of the topology.
C6_NoRoute ==
    [][ op' \in RouteOps =>
          /\ ret' \in {0, 1}
          /\ (ret' = 0) <=> NoRouteCondition(source', target')
          /\ ret' = 0 => path' = <<>>
          /\ ret' = 1 => /\ Len(path') >= 1
                         /\ path'[1] = source'
                         /\ path'[Len(path')] = target'
          /\ (/\ Edges = {{0, 1}, {1, 2}} /\ energy[1] = 0
              /\ source' = 0 /\ target' = 2) => ret' = 0
          /\ UNCHANGED topology ]_vars

\* Scenario C: 0 and 2 are alive and joined only through 1, which is at 0;
\* the distance query (0, 2) has failed.
C6_Witness ==
    /\ op = "shortest_path_distance" /\ ret = 0
    /\ source = 0 /\ target = 2
    /\ Edges = {{0, 1}, {1, 2}}
    /\ energy[0] > 0 /\ energy[1] = 0 /\ energy[2] > 0

\* C7.  Drain rule: apply_battery_drain sets every node of the path to
\* max(0, energy - d), d = max(1, round(2 * packet_size)): d is 2, 10, 20 for
\* packet sizes 1, 5, 10; no path node gains energy or goes below 0; a node at
\* 0 stays at 0; with packet size 1 a node at 3 ends at 1 and a node at 1 at 0.
C7_DrainRule ==
    [][ op' = "drain" =>
          /\ \E r \in 0 .. 200 :
                \* r is 2 * packet_size rounded to a nearest integer
                /\ 4 * r - 2 * pkt' <= 2
                /\ 2 * pkt' - 4 * r <= 2
                /\ \A n \in NodesOf(path') :
                      energy'[n] = Max(0, energy[n] - Max(1, r))
          /\ \A n \in NodesOf(path') :
                /\ pkt' = 4 => energy'[n] = Max(0, energy[n] - 2)
                /\ pkt' = 20 => energy'[n] = Max(0, energy[n] - 10)
                /\ pkt' = 40 => energy'[n] = Max(0, energy[n] - 20)
                /\ energy'[n] <= energy[n]
                /\ energy'[n] >= 0
                /\ energy[n] = 0 => energy'[n] = 0
                /\ (pkt' = 4 /\ energy[n] = 3) => energy'[n] = 1
                /\ (pkt' = 4 /\ energy[n] = 1) => energy'[n] = 0 ]_vars

\* Scenario B: a drain with packet size 1 has left one node of the path at 1
\* (it was at 3) and another at 0.
C7_Witness ==
    /\ op = "drain" /\ pkt = 4
    /\ Len(path) = 3
    /\ \E n \in NodesOf(path) : energy[n] = 1
    /\ \E n \in NodesOf(path) : energy[n] = 0

\* The graph after apply_battery_drain(p, amount) on energies e.
SerialDrain(e, p, amount) ==
    [n \in Nodes |-> IF n \in NodesOf(p) THEN Max(0, e[n] - amount) ELSE e[n]]

\* The graphs fail_random_node may leave from energies e.
SerialFail(e) ==
    IF \A n \in Nodes : e[n] = 0
    THEN {e}
    ELSE {[e EXCEPT ![n] = 0] : n \in {m \in Nodes : e[m] > 0}}

\* What the two calls leave when one runs after the other, in either order,
\* from the energies of the constructed network.
SerialOutcomes(p, amount) ==
    LET e0 == [n \in Nodes |-> MaxInitEnergy]
    IN  SerialFail(SerialDrain(e0, p, amount))
        \cup {SerialDrain(e1, p, amount) : e1 \in SerialFail(e0)}

\* C8.  Serialization: a concurrent apply_battery_drain and fail_random_node
\* end in a state that some serial order of the two reaches.
C8_Serializable ==
    (drainT.pc = "done" /\ failT.pc = "done") =>
        energy \in SerialOutcomes(drainT.path, drainT.amount)

\* C8, in particular: the node fail_random_node has zeroed is not left with
\* energy > 0 by a drain that read before the failure and wrote after it.
C8_FailedNodeStaysDead ==
    (failT.pc = "done" /\ failT.node # None) => energy[failT.node] = 0

\* Scenario A's graph, every node alive, costs assigned at packet size 1.
ScenarioA ==
    /\ distance = [e \in Pairs |-> IF e = {0, 2} THEN 20 ELSE 11]
    /\ \A n \in Nodes : energy[n] > 0
    /\ energy_cost = [e \in Edges |-> advanced_energy_model(distance[e], 4)]

\* C9.  Scenario A: with A-C at distance 10, A-B and B-C at 5.5 and costs of
\* packet size 1, the distance query (A, C) returns [A, C], of distance cost
\* 10 and energy cost 2.5, and the energy query returns [A, B, C], of energy
\* cost 2.21 < 2.5.
C9_ScenarioA ==
    ScenarioA =>
        /\ (op = "shortest_path_distance" /\ source = 0 /\ target = 2) =>
              ret = 1 /\ path = <<0, 2>>
        /\ (op = "shortest_path_energy" /\ source = 0 /\ target = 2) =>
              ret = 1 /\ path = <<0, 1, 2>>
        /\ (op = "compare" /\ source = 0 /\ target = 2) =>
              ret = 1 /\ path = <<0, 2>> /\ epath = <<0, 1, 2>>
        /\ (op = "distance_cost" /\ path = <<0, 2>>) => ret = 20
        /\ (op = "energy_cost" /\ path = <<0, 2>>) => ret = 4000
        /\ (op = "energy_cost" /\ path = <<0, 1, 2>>) => ret = 3536 /\ ret < 4000

\* The energy cost of [A, B, C] has been computed in scenario A.
C9_Witness ==
    /\ ScenarioA
    /\ op = "energy_cost" /\ path = <<0, 1, 2>>
    /\ ret = 3536

RECURSIVE HopSum(_, _, _)
\* The sum of f over the first k hops of p.
HopSum(p, k, f) ==
    IF k <= 0 THEN 0 ELSE HopSum(p, k - 1, f) + f[{p[k], p[k + 1]}]

\* C10.  Path cost aggregation: distance_cost (energy_cost) of a path is the
\* sum of the distance (energy_cost) attributes of the edges between its
\* consecutive nodes (an energy_cost not assigned yet counts 0), read from the
\* whole graph, dead nodes included; both are 0 for a single-node path.
C10_PathCosts ==
    /\ op = "distance_cost" =>
          /\ ret = HopSum(path, Len(path) - 1, distance)
          /\ Len(path) = 1 => ret = 0
    /\ op = "energy_cost" =>
          /\ ret = HopSum(path, Len(path) - 1,
                          [e \in Edges |-> IF energy_cost[e] = Missing THEN 0
                                           ELSE energy_cost[e]])
          /\ Len(path) = 1 => ret = 0

\* The distance cost of a two-hop path through a dead node.
C10_Witness ==
    /\ op = "distance_cost"
    /\ Len(path) = 3
    /\ energy[path[2]] = 0
    /\ ret = distance[{path[1], path[2]}] + distance[{path[2], path[3]}]
RECURSIVE WalkCosts(_, _, _, _)
\* The costs under f of the walks of at most k hops from s to v that visit
\* only nodes with energy > 0.
WalkCosts(k, s, v, f) ==
    IF energy[s] = 0 \/ energy[v] = 0 THEN {}
    ELSE IF k = 0 THEN (IF v = s THEN {0} ELSE {})
    ELSE WalkCosts(k - 1, s, v, f)
         \cup UNION {{c + f[{u, v}] : c \in WalkCosts(k - 1, s, u, f)} :
                       u \in {x \in Nodes : {x, v} \in Edges /\ energy[x] > 0}}

\* p is a path of the topology from s to t over nodes with energy > 0 whose
\* cost under f no walk over such nodes undercuts.
ValidAndMinimal(p, s, t, f) ==
    /\ Len(p) >= 1
    /\ p[1] = s
    /\ p[Len(p)] = t
    /\ \A i \in 1 .. (Len(p) - 1) : p[i] # p[i + 1] /\ {p[i], p[i + 1]} \in Edges
    /\ \A c \in WalkCosts(NumNodes - 1, s, t, f) : HopSum(p, Len(p) - 1, f) <= c

\* The energy_cost attribute as energy_cost() reads it.
CostRead == [e \in Edges |-> IF energy_cost[e] = Missing THEN 0 ELSE energy_cost[e]]

\* C11.  Shortest-path validity and optimality: a path returned by
\* shortest_path_distance starts at source, ends at target, has length >= 1,
\* goes along edges of the topology, and has the least total distance of the
\* source-to-target paths over nodes with energy > 0; the same for
\* shortest_path_energy with energy_cost as the weight.
C11_ShortestPath ==
    /\ (op = "shortest_path_distance" /\ ret = 1) =>
          ValidAndMinimal(path, source, target, distance)
    /\ (op = "shortest_path_energy" /\ ret = 1) =>
          ValidAndMinimal(path, source, target, CostRead)
    /\ (op = "compare" /\ ret = 1) =>
          /\ ValidAndMinimal(path, source, target, distance)
          /\ ValidAndMinimal(epath, source, target, CostRead)

\* The energy query has returned the two-hop path on a triangle whose direct
\* edge costs more energy than the two hops.
C11_Witness ==
    /\ op = "shortest_path_energy" /\ ret = 1
    /\ Edges = Pairs
    /\ path = <<0, 1, 2>>
    /\ energy_cost[{0, 2}] # Missing
    /\ energy_cost[{0, 1}] + energy_cost[{1, 2}] < energy_cost[{0, 2}]

\* C12.  fail_random_node effect and frame: when a node has energy > 0 the
\* call returns the id of a node whose energy was > 0, sets that node's energy
\* to 0 and leaves every other energy, the edges, the distances and the
\* energy costs as they were; every node with energy > 0 may be the one.
C12_FailEffect ==
    [][ /\ op = "idle" =>
              \A n \in Nodes : energy[n] > 0 => ENABLED (FailRandomNode /\ ret' = n)
        /\ (op' = "fail" /\ \E n \in Nodes : energy[n] > 0) =>
              /\ ret' \in Nodes
              /\ energy[ret'] > 0
              /\ energy'[ret'] = 0
              /\ \A n \in Nodes \ {ret'} : energy'[n] = energy[n]
              /\ DOMAIN distance' = DOMAIN distance
              /\ distance' = distance
              /\ energy_cost' = energy_cost ]_vars

\* Node 2 has been failed while node 0 is at 50, node 1 at 100 and the edges
\* carry assigned costs.
C12_Witness ==
    /\ op = "fail" /\ ret = 2
    /\ energy = [n \in Nodes |-> IF n = 0 THEN 50 ELSE IF n = 1 THEN 100 ELSE 0]
    /\ Edges = Pairs
    /\ \A e \in Edges : energy_cost[e] # Missing

\* C13.  apply_battery_drain frame: the call changes the energy of nodes of
\* the given path only; the energy of every other node and the distance and
\* energy_cost of every edge, the path's edges included, stay as they were.
C13_DrainFrame ==
    [][ op' = "drain" =>
          /\ \A n \in Nodes \ NodesOf(path') : energy'[n] = energy[n]
          /\ DOMAIN distance' = DOMAIN distance
          /\ \A e \in Edges : distance'[e] = distance[e]
          /\ DOMAIN energy_cost' = DOMAIN energy_cost
          /\ \A e \in Edges : energy_cost'[e] = energy_cost[e] ]_vars

\* A two-node path of the triangle has been drained to 50 while the third
\* node is still at 100 and every edge carries an assigned cost.
C13_Witness ==
    /\ op = "drain"
    /\ Len(path) = 2
    /\ \A n \in NodesOf(path) : energy[n] = 50
    /\ \E n \in Nodes \ NodesOf(path) : energy[n] = 100
    /\ Edges = Pairs
    /\ \A e \in Edges : energy_cost[e] # Missing
\* The calls that only read the graph.
QueryOps == RouteOps \cup {"compare", "distance_cost", "energy_cost"}

\* C14.  Structural immutability: no operation changes the node set, the
\* edge set or an edge's distance, so a node at 0 keeps its edges; and a
\* routing or cost query leaves the caller's graph, node energies and edge
\* costs included, as it was.
C14_Structure ==
    [][ /\ DOMAIN energy' = DOMAIN energy
        /\ DOMAIN energy = Nodes
        /\ DOMAIN distance' = DOMAIN distance
        /\ \A e \in Edges : distance'[e] = distance[e]
        /\ \A n \in Nodes : energy'[n] = 0 =>
              {e \in DOMAIN distance' : n \in e} = {e \in Edges : n \in e}
        /\ op' \in QueryOps =>
              /\ energy' = energy
              /\ energy_cost' = energy_cost ]_vars

\* A distance query has returned a path on the triangle while node 1, at 0,
\* still has both its edges.
C14_Witness ==
    /\ op = "shortest_path_distance" /\ ret = 1
    /\ energy[1] = 0
    /\ Edges = Pairs
    /\ \A e \in Edges : energy_cost[e] # Missing

\* C15.  assign_energy_costs with the deterministic model: after the call
\* with packet size s every edge, edges at dead nodes included, has
\* energy_cost = 0.5 * s + 0.02 * s * distance^2 (1.0 for distance 5 and 2.5
\* for distance 10 at s = 1); energies and distances are unchanged; a second
\* call with the same s leaves every energy_cost as it is.
C15_AssignCosts ==
    [][ op' = "assign" =>
          /\ DOMAIN energy_cost' = Edges
          \* in 1/1600: 1600 * (0.5 * (pkt/4) + 0.02 * (pkt/4) * (distance/2)^2)
          /\ \A e \in Edges :
                energy_cost'[e] = (200 * pkt') + (2 * pkt' * distance[e] * distance[e])
          /\ \A e \in Edges : (pkt' = 4 /\ distance[e] = 20) => energy_cost'[e] = 4000
          /\ advanced_energy_model(10, 4) = 1600
          /\ advanced_energy_model(20, 4) = 4000
          /\ energy' = energy
          /\ distance' = distance
          /\ (\A e \in Edges :
                energy_cost[e] = (200 * pkt') + (2 * pkt' * distance[e] * distance[e]))
             => energy_cost' = energy_cost ]_vars

\* Costs of packet size 1 have been assigned on a triangle with a dead node:
\* its edge of distance 10 costs 2.5.
C15_Witness ==
    /\ op = "assign" /\ pkt = 4
    /\ Edges = Pairs
    /\ energy[0] = 0
    /\ distance[{0, 2}] = 20
    /\ energy_cost[{0, 2}] = 4000

\* C16.  Construction postcondition: right after construction there are
\* exactly NumNodes nodes with distinct ids, each with an integer energy in
\* [80, 100]; every edge joins two distinct existing nodes, at most one edge
\* per unordered pair; every distance is an integer in [1, 20]; no edge has an
\* energy_cost, and the energy cost of any path reads as 0.  A disconnected
\* graph is a valid outcome.
C16_Constructed ==
    /\ op = "construct" =>
          /\ DOMAIN energy = Nodes
          /\ Cardinality(DOMAIN energy) = NumNodes
          /\ \A n \in Nodes : energy[n] \in 80 .. 100
          /\ \A e \in DOMAIN distance : e \subseteq Nodes /\ Cardinality(e) = 2
          /\ \A e \in DOMAIN distance : distance[e] \in 2 .. 40 /\ distance[e] % 2 = 0
          /\ DOMAIN energy_cost = DOMAIN distance
          /\ \A e \in DOMAIN distance : energy_cost[e] = Missing
          /\ \A p \in Paths : energy_cost_of(p) = 0
    /\ (op = "energy_cost" /\ \A e \in Edges : energy_cost[e] = Missing) => ret = 0

\* A constructed graph that is disconnected: one edge of distance 20 between a
\* node charged 80 and a node charged 100, the third node isolated.
C16_Witness ==
    /\ op = "construct"
    /\ Edges = {{0, 1}}
    /\ distance[{0, 1}] = 40
    /\ energy[0] = 80 /\ energy[1] = 100 /\ energy[2] = 91

\* C17.  Route-and-drain progress: a routing run that finds a path lowers the
\* energy of every node on that path, source and target included, by at least
\* 1; so for a fixed source and target and any packet sizes at most 100 runs
\* find a path, and once a run fails with NoRoute every later run fails too.
C17_RouteDrainProgress ==
    [][ /\ (op' \in RunOps /\ ret' = 1) =>
              /\ source' \in NodesOf(path') /\ target' \in NodesOf(path')
              /\ \A n \in NodesOf(path') : energy[n] >= 1 /\ energy'[n] <= energy[n] - 1
              /\ drains' = drains + 1
              /\ drains' <= 100
        /\ (op' \in RunOps /\ ret' = 0) =>
              /\ energy' = energy
              /\ drains' = drains
        /\ (op \in RunOps /\ ret = 0 /\ op' \in RunOps) => ret' = 0
        /\ (op' \in RunOps /\ (energy[source'] = 0 \/ energy[target'] = 0)) => ret' = 0 ]_vars

\* A hundred runs have found a path, and the run after them has failed.
C17_Witness ==
    /\ op \in RunOps /\ ret = 0
    /\ drains = 100
    /\ source # target

\* C18.  Failure progress: a fail_random_node call that returns a node id
\* lowers the number of nodes with energy > 0 by exactly 1 and returns an id
\* it has not returned before; with k nodes alive at most k more ids are
\* returned whatever other operations come between; once no node is alive
\* every call returns None and every routing query fails with NoRoute.
C18_FailProgress ==
    [][ /\ (op' = "fail" /\ ret' # None) =>
              /\ Cardinality({n \in Nodes : energy'[n] > 0})
                    = Cardinality({n \in Nodes : energy[n] > 0}) - 1
              /\ ret' \notin failed
              /\ failed' = failed \cup {ret'}
        /\ ~(op' = "fail" /\ ret' # None) => failed' = failed
        /\ Cardinality(failed') + Cardinality({n \in Nodes : energy'[n] > 0}) <= NumNodes
        /\ Cardinality({n \in Nodes : energy'[n] > 0})
              <= Cardinality({n \in Nodes : energy[n] > 0})
        /\ (\A n \in Nodes : energy[n] = 0) =>
              /\ op' = "fail" => ret' = None
              /\ op' \in RouteOps => ret' = 0 ]_vars

\* All three ids have been returned, one by one, and a routing query between
\* two joined nodes has then failed.
C18_Witness ==
    /\ op \in RouteOps /\ ret = 0
    /\ failed = Nodes
    /\ source \in Nodes /\ target \in Nodes /\ {source, target} \in Edges

\* C19.  Packet-size invariance of energy routing: a source-to-target path
\* has minimal energy cost under the costs assigned with one positive packet
\* size exactly when it has under the costs assigned with another, so
\* assigning the costs again with another packet size never changes the set
\* of energy-optimal routes of any pair.
C19_PacketSizeInvariance ==
    [][ (op' = "assign" /\ \A e \in Edges : energy_cost_double[e] # <<>>) =>
          \A s \in Nodes, t \in Nodes :
              ShortestPathsDouble(WeightEnergyDouble(energy_cost_double'), s, t)
                 = ShortestPathsDouble(WeightEnergyDouble(energy_cost_double), s, t) ]_vars

====
